---------------------------- MODULE Spec2Model ----------------------------
(***************************************************************************)
(* Discrete-event DAG scheduling simulator (gym_dagsched).                 *)
(*                                                                         *)
(* DagSchedEnv (envs/dagsched_env.py) drives a WorkerAssignmentState       *)
(* (envs/worker_assignment_state.py): a commitment-round protocol          *)
(* interleaved with a time-ordered event loop.                             *)
(*                                                                         *)
(* Every handler of the engine is an operator from engine state to engine  *)
(* state; a failed assertion or a raised exception is recorded in `fault`  *)
(* at the point where it is raised, with the mutations made before it      *)
(* kept, and every later operation is then skipped.                        *)
(*                                                                         *)
(* Pool keys: None is NullKey, (None, None) is General, (j, None) is       *)
(* <<j, 0>> and (j, o) is <<j, o>>; job ids and op ids start at 1 and 0    *)
(* stands for Python's None in a key or in worker.job_id.                  *)
(***************************************************************************)
EXTENDS Integers, Sequences, FiniteSets, TLC

\* ----------------------------------------------------------------- bounds

\* size of the largest worker roster given to reset
MaxWorkers == 4

\* the history stops counting the entries of an op into the schedulable
\* set at this number
AddsCap == 2

\* ------------------------------------------------------ program constants

\* DagSchedEnv.MOVING_COST
MOVING_COST == 2000

\* DagSchedEnv.REWARD_SCALE, in units of 1e-5: rewards are carried in
\* units of 1e-5 so that they stay integers
REWARD_SCALE == 1

\* np.inf, the completion time of a job that has not completed
INF == 1000000

\* ---------------------------------------------------------------- inputs

\* job definitions: number of ops, tasks per op, parents of each op
Templates ==
  [ single1 |-> [n_ops |-> 1, n_tasks |-> <<1>>, parents |-> <<{}>>],
    single2 |-> [n_ops |-> 1, n_tasks |-> <<2>>, parents |-> <<{}>>],
    chain3  |-> [n_ops |-> 3, n_tasks |-> <<1, 1, 2>>,
                 parents |-> <<{}, {1}, {2}>>],
    diamond |-> [n_ops |-> 4, n_tasks |-> <<1, 1, 1, 1>>,
                 parents |-> <<{}, {1}, {1}, {2, 3}>>],
    fan     |-> [n_ops |-> 3, n_tasks |-> <<3, 2, 1>>,
                 parents |-> <<{}, {1}, {1}>>] ]

\* the initial timelines given to reset: a sequence of job arrivals
\* (arrival time, job definition), in push order
Arrivals ==
  { <<[t |-> 0, tmpl |-> "single1"]>>,
    <<[t |-> 500, tmpl |-> "single1"]>>,
    <<[t |-> 500, tmpl |-> "single2"]>>,
    <<[t |-> 500, tmpl |-> "chain3"]>>,
    <<[t |-> 500, tmpl |-> "diamond"]>>,
    <<[t |-> 0, tmpl |-> "single1"], [t |-> 500, tmpl |-> "single1"]>>,
    <<[t |-> 0, tmpl |-> "single2"], [t |-> 500, tmpl |-> "chain3"]>>,
    <<[t |-> 0, tmpl |-> "single1"], [t |-> 0, tmpl |-> "single1"]>>,
    <<[t |-> 500, tmpl |-> "single1"], [t |-> 4000, tmpl |-> "single2"]>> }

\* durations the duration oracle may return for a task
Durations == {1000, 3000}

\* which element an unordered-set iteration yields first
Picks == {"lo", "hi"}

MaxJobs == 2
MaxOps == 4

\* the largest worker count given to the interval maps
MaxExecCap == 102

Workers == 0 .. (MaxWorkers - 1)
JobIds == 1 .. MaxJobs
OpIds == 1 .. MaxOps

NullKey == <<-1, -1>>
General == <<0, 0>>
JobKey(j) == <<j, 0>>
OpKey(j, o) == <<j, o>>
JobKeys == {JobKey(j) : j \in JobIds}
OpKeys == {OpKey(j, o) : j \in JobIds, o \in OpIds}
PoolKeys == {NullKey, General} \cup JobKeys \cup OpKeys

Min(a, b) == IF a <= b THEN a ELSE b
Max(a, b) == IF a >= b THEN a ELSE b

VARIABLES
  pc,                \* "new" | "caller" | "drain": position of the engine
  arrivals,          \* the initial timeline given to reset
  n_workers,         \* DagSchedEnv.n_workers
  timeline,          \* Timeline.pq, in push order
  wall_time,         \* DagSchedEnv.wall_time
  t_prev,            \* step's local t_prev
  active_job_ids,    \* DagSchedEnv.active_job_ids
  completed_job_ids, \* DagSchedEnv.completed_job_ids
  schedulable_ops,   \* DagSchedEnv.schedulable_ops
  selected_ops,      \* DagSchedEnv.selected_ops
  done,              \* DagSchedEnv.done
  reward,            \* the reward returned by the last step
  loc,               \* WorkerAssignmentState._worker_locations
  pools,             \* WorkerAssignmentState._pools
  pool_keys,         \* the keys of _pools
  commitments,       \* WorkerAssignmentState._commitments (insertion order)
  ncf,               \* WorkerAssignmentState._num_commitments_from
  ncto,              \* WorkerAssignmentState._num_commitments_to_op
  nmov,              \* WorkerAssignmentState._num_moving_to_op
  twc,               \* WorkerAssignmentState._total_worker_count
  curr_source,       \* WorkerAssignmentState._curr_source
  jobs,              \* job id -> Job fields
  ops,               \* op key -> Operation fields
  wjob,              \* worker id -> Worker.job_id
  available,         \* worker id -> Worker.available
  fault,             \* "ok", or the assertion or exception that aborted
  hist               \* history: what the run has done so far

vars == <<pc, arrivals, n_workers, timeline, wall_time, t_prev,
          active_job_ids, completed_job_ids, schedulable_ops, selected_ops,
          done, reward, loc, pools, pool_keys, commitments, ncf, ncto, nmov,
          twc, curr_source, jobs, ops, wjob, available, fault, hist>>

\* the engine state as one record
St ==
  [ pc |-> pc, arrivals |-> arrivals, n_workers |-> n_workers,
    timeline |-> timeline, wall_time |-> wall_time, t_prev |-> t_prev,
    active_job_ids |-> active_job_ids,
    completed_job_ids |-> completed_job_ids,
    schedulable_ops |-> schedulable_ops, selected_ops |-> selected_ops,
    done |-> done, reward |-> reward, loc |-> loc, pools |-> pools,
    pool_keys |-> pool_keys, commitments |-> commitments, ncf |-> ncf,
    ncto |-> ncto, nmov |-> nmov, twc |-> twc, curr_source |-> curr_source,
    jobs |-> jobs, ops |-> ops, wjob |-> wjob, available |-> available,
    fault |-> fault, hist |-> hist ]

Becomes(r) ==
  /\ pc' = r.pc /\ arrivals' = r.arrivals /\ n_workers' = r.n_workers
  /\ timeline' = r.timeline /\ wall_time' = r.wall_time
  /\ t_prev' = r.t_prev
  /\ active_job_ids' = r.active_job_ids
  /\ completed_job_ids' = r.completed_job_ids
  /\ schedulable_ops' = r.schedulable_ops /\ selected_ops' = r.selected_ops
  /\ done' = r.done /\ reward' = r.reward /\ loc' = r.loc
  /\ pools' = r.pools /\ pool_keys' = r.pool_keys
  /\ commitments' = r.commitments /\ ncf' = r.ncf /\ ncto' = r.ncto
  /\ nmov' = r.nmov /\ twc' = r.twc /\ curr_source' = r.curr_source
  /\ jobs' = r.jobs /\ ops' = r.ops /\ wjob' = r.wjob
  /\ available' = r.available /\ fault' = r.fault /\ hist' = r.hist

Ok(s) == s.fault = "ok"

\* an assertion fails or an exception is raised: the engine aborts here
Fail(s, what) == IF Ok(s) THEN [s EXCEPT !.fault = what] ELSE s


\* ------------------------------------------ static structure of the jobs

NumJobs(s) == Len(s.arrivals)
Tmpl(s, j) == Templates[s.arrivals[j].tmpl]
NumOps(s, j) == Tmpl(s, j).n_ops
OpsOf(s, j) == {OpKey(j, o) : o \in 1 .. NumOps(s, j)}
n_tasks(s, k) == Tmpl(s, k[1]).n_tasks[k[2]]
Parents(s, k) == {OpKey(k[1], p) : p \in Tmpl(s, k[1]).parents[k[2]]}
Successors(s, k) == {c \in OpsOf(s, k[1]) : k \in Parents(s, c)}

\* -------------------------------------------------- Stage / Operation

n_saturated_tasks(s, k) ==
  s.ops[k].n_completed_tasks + s.ops[k].n_processing

n_remaining_tasks(s, k) == n_tasks(s, k) - n_saturated_tasks(s, k)

op_completed(s, k) == s.ops[k].n_completed_tasks = n_tasks(s, k)

\* Stage.next_task_id: the index of the task slot bound next
next_task_id(s, k) == n_saturated_tasks(s, k)

\* an assignment that does not test whether a slot is free
add_worker_unchecked(s, k) ==
  IF ~Ok(s) THEN s ELSE [s EXCEPT !.ops[k].n_processing = @ + 1]

\* Stage.add_worker: the next task slot becomes occupied
add_worker(s, k) ==
  IF ~Ok(s) THEN s
  ELSE IF ~(n_saturated_tasks(s, k) < n_tasks(s, k))
    THEN Fail(s, "assert:add_worker:stage_saturated")
  ELSE [s EXCEPT !.ops[k].n_processing = @ + 1]

\* a completion that counts the task and leaves its in-progress flag set
stage_add_task_completion_keeping_flag(s, k) ==
  IF ~Ok(s) THEN s
  ELSE [s EXCEPT !.ops[k].n_completed_tasks = @ + 1]

\* Stage.add_task_completion
stage_add_task_completion(s, k) ==
  IF ~Ok(s) THEN s
  ELSE IF ~(s.ops[k].n_completed_tasks < n_tasks(s, k))
    THEN Fail(s, "assert:add_task_completion:all_completed")
  ELSE [s EXCEPT !.ops[k].n_completed_tasks = @ + 1,
                 !.ops[k].n_processing = @ - 1]

\* ------------------------------------------------ WorkerAssignmentState

\* position of dst among the destinations committed from a pool, 0 if none
CommitIndex(cs, dst) ==
  IF \E i \in 1 .. Len(cs) : cs[i][1] = dst
  THEN CHOOSE i \in 1 .. Len(cs) : cs[i][1] = dst
  ELSE 0

RemoveAt(q, i) == SubSeq(q, 1, i - 1) \o SubSeq(q, i + 1, Len(q))

add_job(s, j) ==
  IF ~Ok(s) THEN s
  ELSE [s EXCEPT !.pools[JobKey(j)] = {},
                 !.commitments[JobKey(j)] = <<>>,
                 !.ncf[JobKey(j)] = 0,
                 !.twc[j] = 0,
                 !.pool_keys = @ \cup {JobKey(j)}]

add_op(s, k) ==
  IF ~Ok(s) THEN s
  ELSE [s EXCEPT !.pools[k] = {},
                 !.commitments[k] = <<>>,
                 !.ncf[k] = 0,
                 !.ncto[k] = 0,
                 !.nmov[k] = 0,
                 !.pool_keys = @ \cup {k}]

num_uncommitted_source_workers(s) ==
  Cardinality(s.pools[s.curr_source]) - s.ncf[s.curr_source]

all_source_workers_committed(s) == num_uncommitted_source_workers(s) = 0

general_pool_has_workers(s) == Cardinality(s.pools[General]) > 0

source_job(s) ==
  IF s.curr_source \in {NullKey, General} THEN 0 ELSE s.curr_source[1]

update_worker_source(s, key) ==
  IF ~Ok(s) THEN s ELSE [s EXCEPT !.curr_source = key]

get_source_commitments(s) == s.commitments[s.curr_source]

get_source_workers(s) == s.pools[s.curr_source]

increment_commitments(s, dst, n) ==
  IF ~Ok(s) THEN s
  ELSE IF dst \notin s.pool_keys
    THEN Fail(s, "KeyError:increment_commitments")
  ELSE
    LET src == s.curr_source
        i == CommitIndex(s.commitments[src], dst)
        s1 == [s EXCEPT
                 !.commitments[src] =
                    IF i = 0 THEN Append(@, <<dst, n>>)
                    ELSE [@ EXCEPT ![i] = <<dst, @[2] + n>>],
                 !.ncf[src] = @ + n,
                 !.ncto[dst] = @ + n]
        supply == Cardinality(s1.pools[src])
        demand == s1.ncf[src]
    IN IF supply >= demand THEN s1
       ELSE Fail(s1, "assert:increment_commitments:supply>=demand")

decrement_commitments(s, src, dst) ==
  IF ~Ok(s) THEN s
  ELSE
    LET i == CommitIndex(s.commitments[src], dst)
    IN IF i = 0 THEN Fail(s, "KeyError:decrement_commitments")
       ELSE
         LET s1 == [s EXCEPT
                      !.commitments[src][i] = <<dst, @[2] - 1>>,
                      !.ncf[src] = @ - 1,
                      !.ncto[dst] = @ - 1]
         IN IF s1.ncf[src] < 0
              THEN Fail(s1, "assert:decrement_commitments:from>=0")
            ELSE IF s1.ncto[dst] < 0
              THEN Fail(s1, "assert:decrement_commitments:to>=0")
            ELSE IF s1.commitments[src][i][2] = 0
              THEN [s1 EXCEPT !.commitments[src] = RemoveAt(@, i)]
            ELSE s1

add_commitment(s, num_workers, dst) ==
  LET s1 == increment_commitments(s, dst, num_workers)
      dst_job_id == dst[1]
      src_job_id == s.curr_source[1]
  IN IF ~Ok(s1) THEN s1
     ELSE IF dst_job_id # src_job_id
       THEN [s1 EXCEPT !.twc[dst_job_id] = @ + num_workers]
     ELSE s1

remove_commitment(s, w, dst) ==
  LET src == s.loc[w]
      s1 == decrement_commitments(s, src, dst)
      dst_job_id == dst[1]
      src_job_id == src[1]
  IN IF ~Ok(s1) THEN s1
     ELSE IF dst_job_id # src_job_id
       THEN LET s2 == [s1 EXCEPT !.twc[dst_job_id] = @ - 1]
            IN IF s2.twc[dst_job_id] >= 0 THEN s2
               ELSE Fail(s2, "assert:remove_commitment:total>=0")
     ELSE s1

\* the first destination, in insertion order, committed from the pool
\* the destination committed last is the one served next
peek_last_commitment(s, key) ==
  IF Len(s.commitments[key]) > 0
    THEN s.commitments[key][Len(s.commitments[key])][1]
  ELSE NullKey

peek_commitment(s, key) ==
  IF Len(s.commitments[key]) > 0 THEN s.commitments[key][1][1] ELSE NullKey

count_worker_arrival(s, k) ==
  IF ~Ok(s) THEN s
  ELSE LET s1 == [s EXCEPT !.nmov[k] = @ - 1]
       IN IF s1.nmov[k] >= 0 THEN s1
          ELSE Fail(s1, "assert:count_worker_arrival:moving>=0")

\* the worker is put in the new pool, or sent, without leaving the old pool
move_worker_to_pool_without_leaving(s, w, new_pool_key, send) ==
  IF ~Ok(s) THEN s
  ELSE IF ~send
    THEN [s EXCEPT !.loc[w] = new_pool_key,
                   !.pools[new_pool_key] = @ \cup {w}]
  ELSE [s EXCEPT !.loc[w] = NullKey,
                 !.nmov[new_pool_key] = @ + 1,
                 !.twc[new_pool_key[1]] = @ + 1]

move_worker_to_pool(s, w, new_pool_key, send) ==
  IF ~Ok(s) THEN s
  ELSE
    LET old_pool_key == s.loc[w]
    IN IF old_pool_key # NullKey /\ w \notin s.pools[old_pool_key]
         THEN Fail(s, "KeyError:move_worker_to_pool:remove")
       ELSE
         LET s1 == IF old_pool_key # NullKey
                     THEN [s EXCEPT !.pools[old_pool_key] = @ \ {w},
                                    !.loc[w] = NullKey]
                   ELSE s
         IN IF ~send
              THEN IF new_pool_key \notin s1.pool_keys
                     THEN Fail([s1 EXCEPT !.loc[w] = new_pool_key],
                               "KeyError:move_worker_to_pool:add")
                   ELSE [s1 EXCEPT !.loc[w] = new_pool_key,
                                   !.pools[new_pool_key] = @ \cup {w}]
            ELSE
              LET s2 == [s1 EXCEPT !.nmov[new_pool_key] = @ + 1]
                  old_job_id == IF old_pool_key # NullKey
                                  THEN old_pool_key[1] ELSE 0
                  new_job_id == new_pool_key[1]
              IN IF old_job_id = new_job_id
                   THEN Fail(s2, "assert:move_worker_to_pool:jobs_differ")
                 ELSE
                   LET s3 == [s2 EXCEPT !.twc[new_job_id] = @ + 1]
                   IN IF old_job_id = 0 THEN s3
                      ELSE LET s4 == [s3 EXCEPT !.twc[old_job_id] = @ - 1]
                           IN IF s4.twc[old_job_id] >= 0 THEN s4
                              ELSE Fail(s4,
                                     "assert:move_worker_to_pool:total>=0")

\* ------------------------------------------------------------- Timeline

\* an event of the timeline; the fields an event type does not have are 0
Event(type, j, w, k) == [type |-> type, job |-> j, w |-> w, op |-> k]

timeline_empty(s) == Len(s.timeline) = 0

timeline_push(s, t, e) ==
  IF ~Ok(s) THEN s
  ELSE [s EXCEPT !.timeline = Append(@, [t |-> t, e |-> e])]

\* index of the entry pop returns: the earliest time, and among entries
\* of equal time the one pushed first
PopIndex(q) ==
  CHOOSE i \in 1 .. Len(q) :
    \A m \in 1 .. Len(q) : q[i].t < q[m].t \/ (q[i].t = q[m].t /\ i <= m)

\* --------------------------------------------------------- Job, Worker

job_completed(s, j) == \A k \in OpsOf(s, j) : op_completed(s, k)

job_saturated(s, j) == \A k \in OpsOf(s, j) : s.ops[k].saturated

Criterion(s, k, criterion) ==
  IF criterion = "saturated" THEN s.ops[k].saturated ELSE op_completed(s, k)

initialize_frontier(s, j) == {k \in OpsOf(s, j) : Parents(s, k) = {}}

find_new_frontier_ops(s, k, criterion) ==
  {c \in Successors(s, k) :
     /\ ~Criterion(s, c, criterion)
     /\ \A p \in Parents(s, c) : Criterion(s, p, criterion)}

set_op_saturated(s, k, flag) ==
  IF ~Ok(s) THEN s ELSE [s EXCEPT !.ops[k].saturated = flag]

\* Job.add_op_completion: the ops unlocked by the completion of k join the
\* job's frontier
add_op_completion(s, k) ==
  IF ~Ok(s) THEN s
  ELSE [s EXCEPT !.jobs[k[1]].frontier_ops =
                    @ \cup find_new_frontier_ops(s, k, "completed")]

add_local_worker(s, j, w) ==
  IF ~Ok(s) THEN s ELSE [s EXCEPT !.wjob[w] = j]

remove_local_worker(s, j, w) ==
  IF ~Ok(s) THEN s ELSE [s EXCEPT !.wjob[w] = 0]

job_assign_worker(s, w, k) ==
  LET s1 == add_worker(s, k)
  IN IF ~Ok(s1) THEN s1 ELSE [s1 EXCEPT !.available[w] = FALSE]

add_task_completion(s, k, w) ==
  LET s1 == stage_add_task_completion(s, k)
  IN IF ~Ok(s1) THEN s1 ELSE [s1 EXCEPT !.available[w] = TRUE]

\* ---------------------------------- State: the engine's view of the pools

state_fulfill_commitment(s, w, k, move) ==
  move_worker_to_pool(remove_commitment(s, w, k), w, k, move)

state_assign_worker(s, w, k, move) == move_worker_to_pool(s, w, k, move)

remove_worker_from_pool(s, w) ==
  IF ~Ok(s) THEN s
  ELSE IF s.loc[w] = NullKey THEN s
  ELSE [s EXCEPT !.pools[s.loc[w]] = @ \ {w}, !.loc[w] = NullKey]

move_worker_to_job_pool(s, w) ==
  IF ~Ok(s) THEN s
  ELSE move_worker_to_pool(s, w, JobKey(s.wjob[w]), FALSE)

move_worker_to_null_pool(s, w) == move_worker_to_pool(s, w, General, FALSE)

mark_worker_present(s, w, k) == move_worker_to_pool(s, w, k, FALSE)

\* ---------------------------------------------------------- DagSchedEnv

\* schedulable_ops |= new_ops, counting each entry into the set (the
\* count stops at AddsCap)
sched_add(s, new_ops) ==
  IF ~Ok(s) THEN s
  ELSE [s EXCEPT
          !.schedulable_ops = @ \cup new_ops,
          !.hist.n_sched_adds =
             [k \in OpKeys |->
                IF k \in new_ops /\ k \notin s.schedulable_ops
                THEN Min(@[k] + 1, AddsCap) ELSE @[k]]]

RECURSIVE add_ops(_, _)
add_ops(s, ks) ==
  IF ks = {} THEN s
  ELSE LET k == CHOOSE x \in ks : TRUE
       IN add_ops(add_op(s, k), ks \ {k})

\* the test of saturation that never finds a stage saturated
never_saturated(s, k) == FALSE

get_worker_demand(s, k) == n_remaining_tasks(s, k) - s.nmov[k] - s.ncto[k]

is_op_saturated(s, k) == get_worker_demand(s, k) <= 0

\* the requested count taken as it is, without the clamp to the demand
adjust_n_workers_unclamped(s, n, k) == n

\* the count clamped to the uncommitted workers of the source instead of
\* the demand of the stage
adjust_n_workers_to_source(s, n, k) ==
  Min(n, num_uncommitted_source_workers(s))

adjust_n_workers(s, n, k) == Min(n, get_worker_demand(s, k))

\* the round is complete only when no schedulable stage is left to select
complete_when_nothing_to_select(s) ==
  s.schedulable_ops \ s.selected_ops = {}

is_commitment_round_complete(s) ==
  \/ all_source_workers_committed(s)
  \/ s.schedulable_ops \ s.selected_ops = {}

\* a round is opened whenever a stage is schedulable, whether or not the
\* source has an uncommitted worker
start_whenever_schedulable(s) == s.schedulable_ops # {}

should_start_new_commitment_round(s) ==
  /\ ~all_source_workers_committed(s)
  /\ s.schedulable_ops # {}

expand_frontier(s, k) ==
  IF ~Ok(s) THEN s
  ELSE
    LET new_ops == find_new_frontier_ops(s, k, "saturated")
    IN IF \E c \in new_ops : s.ops[c].saturated
         THEN Fail(s, "assert:expand_frontier:not_saturated")
       ELSE IF \E c \in new_ops : op_completed(s, c)
         THEN Fail(s, "assert:expand_frontier:not_completed")
       ELSE add_ops(sched_add(s, new_ops), new_ops)

\* a saturation that leaves the stage in the schedulable set
process_op_saturation_keeping(s, k) ==
  IF ~Ok(s) THEN s
  ELSE expand_frontier(set_op_saturated(s, k, TRUE), k)

process_op_saturation(s, k) ==
  IF ~Ok(s) THEN s
  ELSE IF ~is_op_saturated(s, k)
    THEN Fail(s, "assert:process_op_saturation:saturated")
  ELSE IF k \notin s.schedulable_ops
    THEN Fail(s, "assert:process_op_saturation:schedulable")
  ELSE expand_frontier(
         set_op_saturated(
           [s EXCEPT !.schedulable_ops = @ \ {k}], k, TRUE), k)

\* a task completion pushed at a time before the wall time
push_task_completion_in_the_past(s, k, w, d) ==
  timeline_push(s, s.wall_time - d, Event("TaskCompletion", k[1], w, k))

push_task_completion_event(s, k, w, d) ==
  timeline_push(s, s.wall_time + d, Event("TaskCompletion", k[1], w, k))

\* the time a worker takes to move depends on which worker it is
push_worker_arrival_by_id(s, w, k) ==
  timeline_push(s, s.wall_time + MOVING_COST * (w + 1),
                Event("WorkerArrival", k[1], w, k))

\* the arrival of the worker is pushed at a time before the wall time
push_worker_arrival_in_the_past(s, w, k) ==
  timeline_push(s, s.wall_time - MOVING_COST,
                Event("WorkerArrival", k[1], w, k))

push_worker_arrival_event(s, w, k) ==
  timeline_push(s, s.wall_time + MOVING_COST,
                Event("WorkerArrival", k[1], w, k))

work_on_op(s, w, k, d) ==
  IF ~Ok(s) THEN s
  ELSE IF ~(n_remaining_tasks(s, k) > 0)
    THEN Fail(s, "assert:work_on_op:remaining>0")
  ELSE IF s.wjob[w] # k[1]
    THEN Fail(s, "assert:work_on_op:is_at_job")
  ELSE IF ~s.available[w]
    THEN Fail(s, "assert:work_on_op:available")
  ELSE
    LET s1 == job_assign_worker(s, w, k)
        s2 == IF Ok(s1) /\ k \in s1.schedulable_ops /\ is_op_saturated(s1, k)
                THEN process_op_saturation(s1, k) ELSE s1
    IN push_task_completion_event(s2, k, w, d)

send_worker(s, w, k) ==
  IF ~Ok(s) THEN s
  ELSE IF ~s.available[w]
    THEN Fail(s, "assert:send_worker:available")
  ELSE IF s.wjob[w] = k[1]
    THEN Fail(s, "assert:send_worker:jobs_differ")
  ELSE
    LET s1 == IF s.wjob[w] # 0
                THEN remove_local_worker(s, s.wjob[w], w) ELSE s
        s2 == IF k \in s1.schedulable_ops /\ is_op_saturated(s1, k)
                THEN process_op_saturation(s1, k) ELSE s1
    IN push_worker_arrival_event(s2, w, k)

\* the op is not in its job's frontier: park the worker at the job pool,
\* and schedule the op again if it has demand left
park_at_job_pool(s, w, k) ==
  LET s1 == move_worker_to_job_pool(s, w)
  IN IF ~Ok(s1) THEN s1
     ELSE IF ~is_op_saturated(s1, k) /\ k \notin s1.schedulable_ops
       THEN sched_add(set_op_saturated(s1, k, FALSE), {k})
     ELSE s1

\* a commitment fulfilled by a worker that starts the task from the pool
\* it is in
fulfill_commitment_in_place(s, w, k, d) ==
  IF ~Ok(s) THEN s
  ELSE IF s.wjob[w] = k[1]
    THEN work_on_op(remove_commitment(s, w, k), w, k, d)
  ELSE send_worker(state_fulfill_commitment(s, w, k, TRUE), w, k)

fulfill_commitment(s, w, k, d) ==
  IF ~Ok(s) THEN s
  ELSE IF ~(n_remaining_tasks(s, k) > 0)
    THEN Fail(s, "assert:fulfill_commitment:remaining>0")
  ELSE IF s.wjob[w] = k[1]
    THEN LET s1 == state_fulfill_commitment(s, w, k, FALSE)
         IN IF ~Ok(s1) THEN s1
            ELSE IF k \notin s1.jobs[k[1]].frontier_ops
              THEN park_at_job_pool(s1, w, k)
            ELSE work_on_op(s1, w, k, d)
  ELSE send_worker(state_fulfill_commitment(s, w, k, TRUE), w, k)

KeyRank(k) == k[1] * (MaxOps + 1) + k[2]

\* the element an iteration over an unordered set yields first
PickOp(S, pick) ==
  IF pick = "lo"
  THEN CHOOSE k \in S : \A m \in S : KeyRank(k) <= KeyRank(m)
  ELSE CHOOSE k \in S : \A m \in S : KeyRank(k) >= KeyRank(m)

PickWorker(S, pick) ==
  IF pick = "lo" THEN CHOOSE w \in S : \A m \in S : w <= m
  ELSE CHOOSE w \in S : \A m \in S : w >= m

\* NullKey when there is no backup op
find_backup_op(s, w, pick) ==
  IF s.schedulable_ops = {} THEN NullKey
  ELSE LET same == {k \in s.schedulable_ops : k[1] = s.wjob[w]}
       IN IF same # {} THEN PickOp(same, pick)
          ELSE PickOp(s.schedulable_ops, pick)

reroute_worker(s, w, k, d) ==
  IF ~Ok(s) THEN s
  ELSE IF ~(n_remaining_tasks(s, k) > 0)
    THEN Fail(s, "assert:reroute_worker:remaining>0")
  ELSE
    LET s1 == remove_worker_from_pool(s, w)
    IN IF s1.wjob[w] = k[1]
         THEN work_on_op(state_assign_worker(s1, w, k, FALSE), w, k, d)
       ELSE send_worker(state_assign_worker(s1, w, k, TRUE), w, k)

try_backup_schedule(s, w, commitment, d, pick) ==
  LET s1 == IF commitment # NullKey
              THEN remove_commitment(s, w, commitment) ELSE s
      backup_op == find_backup_op(s1, w, pick)
  IN IF ~Ok(s1) THEN s1
     ELSE IF backup_op # NullKey THEN reroute_worker(s1, w, backup_op, d)
     ELSE move_worker_to_job_pool(s1, w)

\* ------------------------------------------------------ event handlers

process_job_arrival(s, j) ==
  IF ~Ok(s) THEN s
  ELSE
    LET s1 == add_job([s EXCEPT !.active_job_ids = Append(@, j)], j)
        src_ops == initialize_frontier(s1, j)
        s2 == [s1 EXCEPT !.jobs[j].frontier_ops = @ \cup src_ops]
        s3 == add_ops(sched_add(s2, src_ops), src_ops)
    IN IF general_pool_has_workers(s3)
         THEN update_worker_source(s3, General)
       ELSE s3

\* an arriving worker starts on its stage whether or not the stage is in
\* the frontier of the job
process_worker_arrival_without_race(s, w, k, d, pick) ==
  IF ~Ok(s) THEN s
  ELSE
    LET s1 == add_local_worker(count_worker_arrival(s, k), k[1], w)
    IN IF ~Ok(s1) THEN s1
       ELSE IF job_completed(s1, k[1]) \/ n_remaining_tasks(s1, k) = 0
         THEN try_backup_schedule(s1, w, NullKey, d, pick)
       ELSE work_on_op(mark_worker_present(s1, w, k), w, k, d)

process_worker_arrival(s, w, k, d, pick) ==
  IF ~Ok(s) THEN s
  ELSE
    LET s1 == add_local_worker(count_worker_arrival(s, k), k[1], w)
    IN IF ~Ok(s1) THEN s1
       ELSE IF k \notin s1.jobs[k[1]].frontier_ops
         THEN park_at_job_pool(s1, w, k)
       ELSE IF job_completed(s1, k[1]) \/ n_remaining_tasks(s1, k) = 0
         THEN try_backup_schedule(s1, w, NullKey, d, pick)
       ELSE work_on_op(mark_worker_present(s1, w, k), w, k, d)

process_op_completion(s, k) ==
  IF ~Ok(s) THEN s
  ELSE IF k \in s.schedulable_ops
    THEN Fail(s, "assert:process_op_completion:not_schedulable")
  ELSE add_op_completion(s, k)

process_job_completion(s, j) ==
  IF ~Ok(s) THEN s
  ELSE [s EXCEPT
          !.active_job_ids = SelectSeq(@, LAMBDA x : x # j),
          !.completed_job_ids = Append(@, j),
          !.jobs[j].t_completed = s.wall_time]

move_worker(s, w, k, job_frontier_changed, d, pick) ==
  IF ~Ok(s) THEN s
  ELSE
    LET commitment == peek_commitment(s, k)
    IN IF commitment # NullKey
         THEN IF n_remaining_tasks(s, commitment) > 0
                THEN fulfill_commitment(s, w, commitment, d)
              ELSE try_backup_schedule(s, w, commitment, d, pick)
       ELSE IF job_frontier_changed THEN move_worker_to_job_pool(s, w)
       ELSE s

\* the source follows the freed worker whether or not the frontier changed
update_source_ignoring_frontier(s, k, commitment, job_frontier_changed) ==
  IF commitment = NullKey THEN update_worker_source(s, k) ELSE s

env_update_worker_source(s, k, commitment, job_frontier_changed) ==
  IF job_frontier_changed THEN update_worker_source(s, JobKey(k[1]))
  ELSE IF commitment = NullKey THEN update_worker_source(s, k)
  ELSE s

\* a completion never puts the worker back to work on the stage
process_task_completion_releasing(s, k, w, d, pick) ==
  IF ~Ok(s) THEN s
  ELSE
    LET s1 == add_task_completion(s, k, w)
        commitment == IF Ok(s1) THEN peek_commitment(s1, k) ELSE NullKey
        s4 == move_worker(s1, w, k, FALSE, d, pick)
    IN env_update_worker_source(s4, k, commitment, FALSE)

process_task_completion(s, k, w, d, pick) ==
  IF ~Ok(s) THEN s
  ELSE
    LET s1 == add_task_completion(s, k, w)
    IN IF ~Ok(s1) THEN s1
       ELSE IF n_remaining_tasks(s1, k) > 0 THEN work_on_op(s1, w, k, d)
       ELSE
         LET completes == op_completed(s1, k)
             job_frontier_changed ==
               completes /\ find_new_frontier_ops(s1, k, "completed") # {}
             s2 == IF completes THEN process_op_completion(s1, k) ELSE s1
             s3 == IF Ok(s2) /\ job_completed(s2, k[1])
                     THEN process_job_completion(s2, k[1]) ELSE s2
             commitment == IF Ok(s3) THEN peek_commitment(s3, k)
                           ELSE NullKey
             s4 == move_worker(s3, w, k, job_frontier_changed, d, pick)
         IN env_update_worker_source(s4, k, commitment,
                                     job_frontier_changed)

process_scheduling_event(s, e, d, pick) ==
  IF e.type = "JobArrival" THEN process_job_arrival(s, e.job)
  ELSE IF e.type = "WorkerArrival"
    THEN process_worker_arrival(s, e.w, e.op, d, pick)
  ELSE process_task_completion(s, e.op, e.w, d, pick)

\* timeline.pop() followed by _process_scheduling_event
pop_and_process(s, d, pick) ==
  IF ~Ok(s) THEN s
  ELSE IF timeline_empty(s) THEN Fail(s, "EmptyTimeline")
  ELSE
    LET i == PopIndex(s.timeline)
        entry == s.timeline[i]
        s1 == [s EXCEPT !.timeline = RemoveAt(@, i),
                        !.wall_time = entry.t,
                        !.hist.log = Append(@,
                           [type |-> entry.e.type,
                            t |-> entry.t,
                            general |-> Cardinality(s.pools[General])])]
    IN process_scheduling_event(s1, entry.e, d, pick)

\* ----------------------------------------------- closing a commitment round

move_free_uncommitted_source_workers(s, free_worker_ids) ==
  IF ~Ok(s) THEN s
  ELSE
    LET job_id == s.curr_source[1]
        op_id == s.curr_source[2]
    IN IF job_id = 0 \/ (op_id = 0 /\ ~job_saturated(s, job_id)) THEN s
       ELSE
         LET dest == IF job_saturated(s, job_id) THEN General
                     ELSE JobKey(job_id)
             RECURSIVE MoveAll(_, _)
             MoveAll(r, ws) ==
               IF ws = {} THEN r
               ELSE LET w == CHOOSE x \in ws : TRUE
                    IN MoveAll(IF dest = General
                                 THEN move_worker_to_null_pool(r, w)
                               ELSE move_worker_to_job_pool(r, w),
                               ws \ {w})
         IN MoveAll(s, free_worker_ids)

\* the loops of _fulfill_source_commitments over the snapshot cs of the
\* source's commitments: entry i has n workers still to be sent
RECURSIVE FulfillLoop(_, _, _, _, _, _, _)
FulfillLoop(s, cs, i, n, free, d, pick) ==
  IF ~Ok(s) THEN [s |-> s, free |-> free]
  ELSE IF i > Len(cs) THEN [s |-> s, free |-> free]
  ELSE IF n > 0 /\ free # {}
    THEN LET w == PickWorker(free, pick)
         IN FulfillLoop(fulfill_commitment(s, w, cs[i][1], d),
                        cs, i, n - 1, free \ {w}, d, pick)
  ELSE FulfillLoop(s, cs, i + 1,
                   IF i + 1 <= Len(cs) THEN cs[i + 1][2] ELSE 0,
                   free, d, pick)

\* the commitments of the source are served latest first
fulfill_source_commitments_latest_first(s, d, pick) ==
  IF ~Ok(s) THEN s
  ELSE
    LET free_worker_ids == {w \in get_source_workers(s) : s.available[w]}
        cs0 == get_source_commitments(s)
        cs == [i \in 1 .. Len(cs0) |-> cs0[Len(cs0) + 1 - i]]
        r == FulfillLoop(s, cs, 1, IF Len(cs) > 0 THEN cs[1][2] ELSE 0,
                         free_worker_ids, d, pick)
    IN IF r.free # {}
         THEN move_free_uncommitted_source_workers(r.s, r.free)
       ELSE r.s

fulfill_source_commitments(s, d, pick) ==
  IF ~Ok(s) THEN s
  ELSE
    LET free_worker_ids == {w \in get_source_workers(s) : s.available[w]}
        cs == get_source_commitments(s)
        r == FulfillLoop(s, cs, 1, IF Len(cs) > 0 THEN cs[1][2] ELSE 0,
                         free_worker_ids, d, pick)
    IN IF r.free # {}
         THEN move_free_uncommitted_source_workers(r.s, r.free)
       ELSE r.s

\* ------------------------------------------------------------- reward

calculate_reward(s, prev_time) ==
  LET RECURSIVE Sum(_)
      Sum(q) ==
        IF q = <<>> THEN 0
        ELSE LET j == Head(q)
                 start == Max(s.arrivals[j].t, prev_time)
                 end == Min(s.jobs[j].t_completed, s.wall_time)
             IN Sum(Tail(q)) - (end - start)
  IN Sum(s.active_job_ids) * REWARD_SCALE

\* ------------------------------------------------------- reset and step

NoHist ==
  [ n_sched_adds |-> [k \in OpKeys |-> 0],
    log |-> <<>>,
    total_reward |-> 0,
    round_targets |-> <<>>,
    last |-> [kind |-> "none", target |-> NullKey, requested |-> 0,
              adjusted |-> 0, remaining |-> 0, moving |-> 0,
              committed |-> 0, uncommitted |-> 0] ]

\* the fields as reset sets them, before it steps through the timeline
Fresh(arr, n) ==
  [ pc |-> "caller", arrivals |-> arr, n_workers |-> n,
    timeline |->
      [i \in 1 .. Len(arr) |->
         [t |-> arr[i].t, e |-> Event("JobArrival", i, 0, NullKey)]],
    wall_time |-> 0, t_prev |-> 0,
    active_job_ids |-> <<>>, completed_job_ids |-> <<>>,
    schedulable_ops |-> {}, selected_ops |-> {},
    done |-> FALSE, reward |-> 0,
    loc |-> [w \in Workers |-> IF w < n THEN General ELSE NullKey],
    pools |-> [k \in PoolKeys |->
                 IF k = General THEN 0 .. (n - 1) ELSE {}],
    pool_keys |-> {NullKey, General},
    commitments |-> [k \in PoolKeys |-> <<>>],
    ncf |-> [k \in PoolKeys |-> 0],
    ncto |-> [k \in OpKeys |-> 0],
    nmov |-> [k \in OpKeys |-> 0],
    twc |-> [j \in JobIds |-> 0],
    curr_source |-> General,
    jobs |-> [j \in JobIds |-> [frontier_ops |-> {}, t_completed |-> INF]],
    ops |-> [k \in OpKeys |->
               [n_completed_tasks |-> 0, n_processing |-> 0,
                saturated |-> FALSE]],
    wjob |-> [w \in Workers |-> 0],
    available |-> [w \in Workers |-> TRUE],
    fault |-> "ok",
    hist |-> [NoHist EXCEPT !.last.kind = "reset"] ]

\* while self.wall_time == 0: pop an event and process it
RECURSIVE ResetLoop(_)
ResetLoop(s) ==
  IF Ok(s) /\ s.wall_time = 0
  THEN ResetLoop(pop_and_process(s, 0, "lo"))
  ELSE s

reset(arr, n) == ResetLoop(Fresh(arr, n))

\* the target is not recorded as selected
select_nothing(s, k) == s

\* self.selected_ops.add(op)
select_op(s, k) ==
  IF ~Ok(s) THEN s ELSE [s EXCEPT !.selected_ops = @ \cup {k}]

\* a step that marks its target as selected before it checks the action
step_selecting_first(s, k, n, d, pick) ==
  LET s1 == select_op(s, k)
  IN IF k[1] \notin {s.active_job_ids[i] : i \in 1 .. Len(s.active_job_ids)}
       THEN Fail(s1, "assert:step:job_active")
     ELSE IF k \notin (s.schedulable_ops \ s.selected_ops)
       THEN Fail(s1, "assert:step:schedulable_unselected")
     ELSE IF ~(adjust_n_workers(s, n, k) > 0)
       THEN Fail(s1, "assert:adjust_n_workers:adjusted>0")
     ELSE [s1 EXCEPT !.reward = 0]

\* step up to the end of the commitment round: the commitment, and, when
\* the round is complete, the fulfilment of the source's commitments
step(s, k, n, d, pick) ==
  IF k[1] \notin {s.active_job_ids[i] : i \in 1 .. Len(s.active_job_ids)}
    THEN Fail(s, "assert:step:job_active")
  ELSE IF k \notin (s.schedulable_ops \ s.selected_ops)
    THEN Fail(s, "assert:step:schedulable_unselected")
  ELSE
    LET n_workers_adjusted == adjust_n_workers(s, n, k)
        s0 == [s EXCEPT
                 !.hist.log = <<>>,
                 !.hist.round_targets = Append(@, k),
                 !.hist.last =
                    [kind |-> "step", target |-> k, requested |-> n,
                     adjusted |-> n_workers_adjusted,
                     remaining |-> n_remaining_tasks(s, k),
                     moving |-> s.nmov[k],
                     committed |-> s.ncto[k],
                     uncommitted |-> num_uncommitted_source_workers(s)]]
    IN IF ~(n_workers_adjusted > 0)
         THEN Fail(s, "assert:adjust_n_workers:adjusted>0")
       ELSE
         LET s1 == add_commitment(s0, n_workers_adjusted, k)
             s2 == IF Ok(s1) /\ is_op_saturated(s1, k)
                     THEN process_op_saturation(s1, k) ELSE s1
             s3 == select_op(s2, k)
         IN IF ~Ok(s3) THEN s3
            ELSE IF num_uncommitted_source_workers(s3) < 0
              THEN Fail(s3, "assert:num_uncommitted>=0")
            ELSE IF ~is_commitment_round_complete(s3)
              THEN [s3 EXCEPT !.reward = 0]
            ELSE
              LET s4 == fulfill_source_commitments(
                          [s3 EXCEPT !.selected_ops = {},
                                     !.hist.round_targets = <<>>],
                          d, pick)
              IN IF ~Ok(s4) THEN s4
                 ELSE [s4 EXCEPT !.t_prev = s4.wall_time, !.pc = "drain"]

\* the end of step: the timeline is drained
step_return(s) ==
  IF num_uncommitted_source_workers(s) < 0
    THEN Fail(s, "assert:num_uncommitted>=0")
  ELSE
    LET r == calculate_reward(s, s.t_prev)
        is_done == timeline_empty(s) /\ ~should_start_new_commitment_round(s)
        s1 == [s EXCEPT !.reward = r, !.done = is_done,
                        !.hist.total_reward = @ + r]
    IN IF is_done /\ s1.schedulable_ops # {}
         THEN Fail(s1, "assert:step:done_schedulable_empty")
       ELSE IF is_done /\ Len(s1.active_job_ids) # 0
         THEN Fail(s1, "assert:step:all_jobs_complete")
       ELSE IF ~is_done /\ s1.schedulable_ops = {}
         THEN Fail(s1, "assert:step:schedulable_nonempty")
       ELSE [s1 EXCEPT !.pc = "caller"]

\* ---------------------------------------------------------------- actions

Init ==
  /\ pc = "new" /\ arrivals = <<>> /\ n_workers = 0
  /\ timeline = <<>> /\ wall_time = 0 /\ t_prev = 0
  /\ active_job_ids = <<>> /\ completed_job_ids = <<>>
  /\ schedulable_ops = {} /\ selected_ops = {}
  /\ done = FALSE /\ reward = 0
  /\ loc = [w \in Workers |-> NullKey]
  /\ pools = [k \in PoolKeys |-> {}]
  /\ pool_keys = {}
  /\ commitments = [k \in PoolKeys |-> <<>>]
  /\ ncf = [k \in PoolKeys |-> 0]
  /\ ncto = [k \in OpKeys |-> 0]
  /\ nmov = [k \in OpKeys |-> 0]
  /\ twc = [j \in JobIds |-> 0]
  /\ curr_source = NullKey
  /\ jobs = [j \in JobIds |-> [frontier_ops |-> {}, t_completed |-> INF]]
  /\ ops = [k \in OpKeys |->
              [n_completed_tasks |-> 0, n_processing |-> 0,
               saturated |-> FALSE]]
  /\ wjob = [w \in Workers |-> 0]
  /\ available = [w \in Workers |-> TRUE]
  /\ fault = "ok"
  /\ hist = NoHist

\* reset(initial_timeline, workers)
Reset ==
  /\ pc = "new"
  /\ \E arr \in Arrivals, n \in 1 .. MaxWorkers : Becomes(reset(arr, n))

\* step's assertions on its target fail: the call aborts before the count,
\* the durations and the order of the free workers are read
target_refused(s, k) ==
  \/ k[1] \notin {s.active_job_ids[i] : i \in 1 .. Len(s.active_job_ids)}
  \/ k \notin (s.schedulable_ops \ s.selected_ops)

\* step(((job_id, op_id), n_workers)), up to the draining of the timeline;
\* a call with a refused target stands for the calls with every count
Step ==
  /\ pc = "caller" /\ fault = "ok" /\ ~done
  /\ \E j \in 1 .. Len(arrivals) :
       \E k \in OpsOf(St, j) :
         IF target_refused(St, k)
           THEN Becomes(step(St, k, 0, CHOOSE d \in Durations : TRUE,
                             CHOOSE pick \in Picks : TRUE))
           ELSE \E n \in 0 .. n_workers, d \in Durations, pick \in Picks :
                  Becomes(step(St, k, n, d, pick))

\* one iteration of step's loop over the timeline
DrainEvent ==
  /\ pc = "drain" /\ fault = "ok"
  /\ num_uncommitted_source_workers(St) >= 0
  /\ ~(timeline_empty(St) \/ should_start_new_commitment_round(St))
  /\ \E d \in Durations, pick \in Picks :
       Becomes(pop_and_process(St, d, pick))

\* step's loop ends: the reward and done are computed, step returns
DrainReturn ==
  /\ pc = "drain" /\ fault = "ok"
  /\ \/ num_uncommitted_source_workers(St) < 0
     \/ timeline_empty(St)
     \/ should_start_new_commitment_round(St)
  /\ Becomes(step_return(St))

Next == Reset \/ Step \/ DrainEvent \/ DrainReturn

Spec == Init /\ [][Next]_vars

\* reset with two or more workers: the runs in which the free workers of a
\* source can be taken in more than one order
ResetSeveral ==
  /\ pc = "new"
  /\ \E arr \in Arrivals, n \in 2 .. MaxWorkers : Becomes(reset(arr, n))

NextSeveral == ResetSeveral \/ Step \/ DrainEvent \/ DrainReturn

SpecSeveral == Init /\ [][NextSeveral]_vars

\* reset with one job whose first stage has three tasks and two successors,
\* and three or more workers: the runs in which one pool owes workers to
\* two destinations while its workers free up one by one
ArrivalsFan == { <<[t |-> 500, tmpl |-> "fan"]>> }

ResetFan ==
  /\ pc = "new"
  /\ \E arr \in ArrivalsFan, n \in 3 .. MaxWorkers : Becomes(reset(arr, n))

NextFan == ResetFan \/ Step \/ DrainEvent \/ DrainReturn

SpecFan == Init /\ [][NextFan]_vars

\* reset with two jobs of one stage each, the second arriving later: the
\* runs in which a worker moves from a pool of one job to the other job
ArrivalsPair ==
  {arr \in Arrivals :
     /\ Len(arr) = 2 /\ arr[2].t > 0
     /\ \A i \in 1 .. 2 : Templates[arr[i].tmpl].n_ops = 1}

ResetPair ==
  /\ pc = "new"
  /\ \E arr \in ArrivalsPair, n \in 1 .. MaxWorkers : Becomes(reset(arr, n))

NextPair == ResetPair \/ Step \/ DrainEvent \/ DrainReturn

SpecPair == Init /\ [][NextPair]_vars

\* the runs in which a job of one stage is followed by a chain of three
\* stages, under fairness: reset is called, the caller goes on calling step
\* and the loop of step goes on popping events while its condition holds
ArrivalsLive ==
  {arr \in Arrivals :
     Len(arr) = 2 /\ \E i \in 1 .. 2 : Templates[arr[i].tmpl].n_ops > 1}

ResetLive ==
  /\ pc = "new"
  /\ \E arr \in ArrivalsLive, n \in 1 .. MaxWorkers : Becomes(reset(arr, n))

NextLive == ResetLive \/ Step \/ DrainEvent \/ DrainReturn

\* the run goes on: a step of the run taken while nothing was raised and
\* step has not returned done = true
Runs == fault = "ok" /\ ~done /\ pc' \in {"caller", "drain"}

SpecLive == Init /\ [][NextLive]_vars /\ WF_pc(Runs)

\* --------------------------------------- worker-count reference levels

\* executor_data_point / exec_levels
ExecLevels == <<5, 10, 20, 40, 50, 60, 80, 100>>

LastLevel == ExecLevels[Len(ExecLevels)]

\* _get_executor_interval_map: the dictionary the engine builds for
\* exec_cap workers, a function on the keys that were assigned
get_executor_interval_map(exec_cap) ==
  LET left == 0 .. ExecLevels[1]
      center == ExecLevels[1] + 1 .. LastLevel
      residual == IF exec_cap > LastLevel
                    THEN LastLevel + 1 .. exec_cap ELSE {}
  IN [e \in left \cup center \cup residual |->
        IF e \in left THEN <<ExecLevels[1], ExecLevels[1]>>
        ELSE IF e \in residual THEN <<LastLevel, LastLevel>>
        ELSE LET i == CHOOSE m \in 1 .. Len(ExecLevels) - 1 :
                        ExecLevels[m] < e /\ e <= ExecLevels[m + 1]
             IN IF e = ExecLevels[i + 1]
                  THEN <<ExecLevels[i + 1], ExecLevels[i + 1]>>
                  ELSE <<ExecLevels[i], ExecLevels[i + 1]>>]

\* a[lo:hi] = v on an array: the rows lo .. hi - 1 that exist
SliceAssign(a, lo, hi, v) ==
  [e \in DOMAIN a |-> IF lo <= e /\ e < hi THEN v ELSE a[e]]

\* TaskDurationGen._init_executor_intervals: the array of exec_cap + 1
\* rows, filled in the order of the code
init_executor_intervals(exec_cap) ==
  LET zeros == [e \in 0 .. exec_cap |-> <<0, 0>>]
      leftmost == SliceAssign(zeros, 0, ExecLevels[1] + 1,
                              <<ExecLevels[1], ExecLevels[1]>>)
      RECURSIVE Center(_, _)
      Center(a, i) ==
        IF i > Len(ExecLevels) - 1 THEN a
        ELSE LET b == SliceAssign(a, ExecLevels[i] + 1, ExecLevels[i + 1],
                                  <<ExecLevels[i], ExecLevels[i + 1]>>)
             IN IF ExecLevels[i + 1] > exec_cap THEN b
                ELSE Center([b EXCEPT ![ExecLevels[i + 1]] =
                               <<ExecLevels[i + 1], ExecLevels[i + 1]>>],
                            i + 1)
      centered == Center(leftmost, 1)
  IN IF exec_cap > LastLevel
       THEN SliceAssign(centered, LastLevel + 1, exec_cap,
                        <<LastLevel, LastLevel>>)
     ELSE centered

\* the engine and the duration generator are built for exec_cap workers
LevelsNew ==
  /\ pc = "new"
  /\ \E exec_cap \in 0 .. MaxExecCap :
       Becomes([St EXCEPT !.pc = "levels", !.n_workers = exec_cap])

\* both maps are read at a worker count n
LevelsLookup ==
  /\ pc = "levels"
  /\ \E n \in 0 .. n_workers :
       Becomes([St EXCEPT !.hist.log =
                  <<[type |-> "levels", n |-> n,
                     engine |-> get_executor_interval_map(n_workers)[n],
                     datagen |-> init_executor_intervals(n_workers)[n]]>>])

NextLevels == LevelsNew \/ LevelsLookup

SpecLevels == Init /\ [][NextLevels]_vars

\* ------------------------------------------- the stages of one job, alone

\* a job is built from a definition: every stage has no task completed and
\* no task in progress
StageNew ==
  /\ pc = "new"
  /\ \E x \in DOMAIN Templates, n \in 1 .. MaxWorkers :
       Becomes([St EXCEPT !.pc = "stage", !.n_workers = n,
                          !.arrivals = <<[t |-> 0, tmpl |-> x]>>])

\* the log of the task slots bound, kept in the order of stage and slot:
\* entry b put after the entries of earlier stages and of the slots of its
\* stage up to its own
LogBound(log, b) ==
  LET n == Cardinality({i \in 1 .. Len(log) :
                          \/ log[i].op[2] < b.op[2]
                          \/ log[i].op = b.op /\ log[i].task <= b.task})
  IN SubSeq(log, 1, n) \o <<b>> \o SubSeq(log, n + 1, Len(log))

\* Job.assign_worker on any stage of the job, for the first worker without
\* a task; the log keeps which slot was bound to which worker
StageAddWorker ==
  /\ pc = "stage" /\ fault = "ok"
  /\ \E k \in OpsOf(St, 1), w \in 0 .. n_workers - 1 :
       /\ available[w] /\ \A v \in 0 .. w - 1 : ~available[v]
       /\ LET s1 == job_assign_worker(St, w, k)
          IN Becomes(IF ~Ok(s1) THEN s1
                     ELSE [s1 EXCEPT !.hist.log =
                             LogBound(@, [type |-> "TaskBound", op |-> k,
                                          task |-> next_task_id(St, k),
                                          w |-> w])])

\* Job.add_task_completion for any task in progress
StageAddTaskCompletion ==
  /\ pc = "stage" /\ fault = "ok"
  /\ \E i \in 1 .. Len(hist.log) :
       /\ hist.log[i].type = "TaskBound"
       /\ LET s1 == add_task_completion(St, hist.log[i].op, hist.log[i].w)
          IN Becomes(IF ~Ok(s1) THEN s1
                     ELSE [s1 EXCEPT !.hist.log[i].type = "TaskCompleted"])

NextStage == StageNew \/ StageAddWorker \/ StageAddTaskCompletion

SpecStage == Init /\ [][NextStage]_vars

\* ----------------------------------------------------------------- claims

RECURSIVE SumOver(_, _)
SumOver(f, S) ==
  IF S = {} THEN 0
  ELSE LET x == CHOOSE y \in S : TRUE IN f[x] + SumOver(f, S \ {x})

RangeOf(q) == {q[i] : i \in 1 .. Len(q)}

NumPoolMembers == SumOver([k \in PoolKeys |-> Cardinality(pools[k])], PoolKeys)
NumMoving == SumOver(nmov, OpKeys)

\* the ops of the jobs given to reset
AllOps == UNION {OpsOf(St, j) : j \in 1 .. Len(arrivals)}

\* Scenario A: one job of one stage with one task, one worker
ScenarioA ==
  /\ Len(arrivals) = 1
  /\ arrivals[1].tmpl = "single1"
  /\ n_workers = 1

C2_SupplyCoversDemand ==
  /\ fault # "assert:increment_commitments:supply>=demand"
  /\ (pc = "caller" /\ hist.round_targets # <<>>)
       => ncf[curr_source] <= Cardinality(pools[curr_source])

C5_NoDuplicateSelection ==
  fault = "ok" =>
    LET rt == hist.round_targets
    IN /\ \A i, j \in 1 .. Len(rt) : i # j => rt[i] # rt[j]
       /\ selected_ops = RangeOf(rt)
       /\ pc = "drain" => selected_ops = {}

\* two stages have been selected in the round that is open
C5_Witness ==
  fault = "ok" /\ pc = "caller" /\ Cardinality(selected_ops) >= 2

\* C6: whenever reset or step has returned to the caller with done = false,
\* the source has an uncommitted worker and a schedulable stage is not
\* selected.
C6_RoundOpenAtCaller ==
  (pc = "caller" /\ fault = "ok" /\ ~done) =>
    /\ Cardinality(pools[curr_source]) - ncf[curr_source] > 0
    /\ schedulable_ops \ selected_ops # {}

\* step has drained events and returned with the episode not done
C6_Witness ==
  /\ pc = "caller" /\ fault = "ok" /\ ~done
  /\ hist.last.kind = "step" /\ hist.log # <<>>
  /\ curr_source \notin {NullKey, General}

\* C7: Scenario A terminates.  In Scenario A the run is never stopped
\* before done = true: after reset, until the episode is done, the engine
\* can always take its next step.
C7_ScenarioATerminates ==
  (ScenarioA /\ pc # "new") => (done \/ ENABLED Next)

\* C8: Scenario A reward.  When the episode of Scenario A is done, the
\* rewards returned over the episode add up to -(completion time of the
\* job - arrival time of the job) * REWARD_SCALE.
C8_ScenarioAReward ==
  (ScenarioA /\ done /\ fault = "ok") =>
    hist.total_reward =
      (0 - (jobs[1].t_completed - arrivals[1].t)) * REWARD_SCALE

\* the part of [t_prev, wall_time] in which job j is in the system
Overlap(j) ==
  Max(0, Min(jobs[j].t_completed, wall_time) - Max(arrivals[j].t, t_prev))

\* C9: reward accounting.  The reward returned by a step that has drained
\* the timeline from t_prev to wall_time is -REWARD_SCALE times the sum
\* over the jobs of the overlap of [t_prev, wall_time] with [arrival,
\* completion].
C9_RewardAccounting ==
  (pc = "caller" /\ fault = "ok" /\ hist.last.kind = "step"
     /\ hist.round_targets = <<>>) =>
    reward =
      (0 - SumOver([j \in 1 .. Len(arrivals) |-> Overlap(j)],
                   1 .. Len(arrivals))) * REWARD_SCALE

\* C10: Scenario B.  After a JobArrival processed while the General pool
\* holds a worker, control returns to the caller before an event of a later
\* time is processed: within one call of reset or step no event of a later
\* time follows such an arrival.
C10_RoundAtEachArrival ==
  fault = "ok" =>
    \A i, j \in 1 .. Len(hist.log) :
      (i < j /\ hist.log[i].type = "JobArrival" /\ hist.log[i].general > 0)
        => hist.log[j].t <= hist.log[i].t

\* Scenario C: one diamond job A -> B, A -> C, B -> D, C -> D
ScenarioC ==
  /\ Len(arrivals) = 1
  /\ arrivals[1].tmpl = "diamond"

StageD == OpKey(1, 4)

\* C11: Scenario C.  Stage D of the diamond is added to the schedulable set,
\* once B and C are saturated, exactly once during the run.
C11_DAddedOnce ==
  ScenarioC => hist.n_sched_adds[StageD] <= 1

\* the event that the next iteration of step's loop pops
NextEvent == timeline[PopIndex(timeline)].e

\* step's loop processes one event in this step of the engine
EventProcessed ==
  /\ pc = "drain" /\ Len(timeline) > 0
  /\ Len(hist.log') = Len(hist.log) + 1

\* the event popped is the arrival of a worker at a stage that is in the
\* live frontier and has no remaining task, or whose job has completed
BackupArrival ==
  /\ EventProcessed
  /\ NextEvent.type = "WorkerArrival"
  /\ NextEvent.op \in jobs[NextEvent.job].frontier_ops
  /\ \/ job_completed(St, NextEvent.job)
     \/ n_remaining_tasks(St, NextEvent.op) = 0
  /\ fault' = "ok"

\* C12: Scenario D.  A worker that arrives at a stage with no remaining
\* task, or of a completed job, is put on a schedulable stage of the same
\* job if there is one, otherwise is sent to a schedulable stage of another
\* job, and otherwise is moved to the General pool.
C12_BackupSchedule ==
  [][BackupArrival =>
       LET w == NextEvent.w
           same == {k \in schedulable_ops : k[1] = NextEvent.job}
       IN IF same # {} THEN loc'[w] \in same
          ELSE IF schedulable_ops # {}
            THEN /\ loc'[w] = NullKey
                 /\ \E k \in schedulable_ops : nmov'[k] = nmov[k] + 1
          ELSE loc'[w] = General]_vars

\* a call of step is accepted: it returns to the caller with one more target
\* selected, or goes on to drain the timeline
StepAccepted ==
  /\ pc = "caller" /\ fault' = "ok"
  /\ hist'.last.kind = "step"
  /\ \/ pc' = "drain"
     \/ Len(hist'.round_targets) = Len(hist.round_targets) + 1

\* the commitment of the call takes the last uncommitted workers of the source
CommitsAllOfSource == hist'.last.adjusted = hist'.last.uncommitted

\* the workers of the source that are busy with a task
BusyAtSource == {w \in pools[curr_source] : ~available[w]}

\* C13: Scenario E.  When the commitment of a step leaves no uncommitted
\* worker at the source, the round closes in that call: the selected set is
\* cleared, the commitments of the source are fulfilled with its free
\* workers (only those of its busy workers are left) and step goes on to
\* drain the timeline instead of returning for another decision, whether
\* or not schedulable stages remain unselected.
C13_RoundClosesInStep ==
  [][(StepAccepted /\ CommitsAllOfSource) =>
       /\ pc' = "drain"
       /\ selected_ops' = {}
       /\ ncf'[curr_source] <= Cardinality(BusyAtSource)]_vars

\* a step has just closed the round by committing the last workers of the
\* source while a stage other than its target was schedulable
C13_Witness ==
  /\ pc = "drain" /\ fault = "ok" /\ hist.last.kind = "step"
  /\ hist.log = <<>>
  /\ hist.last.adjusted = hist.last.uncommitted
  /\ schedulable_ops \ {hist.last.target} # {}

\* the assertions of step that reject the caller's action
InvalidAction ==
  { "assert:step:job_active", "assert:step:schedulable_unselected",
    "assert:adjust_n_workers:adjusted>0" }

\* C14: a step whose action is invalid (the job of the target is not
\* active, the target is not schedulable and unselected, or the count
\* clamped to the demand of the target is <= 0) is rejected with the engine
\* state unchanged: pools, commitments, counters, schedulable and selected
\* sets, timeline, wall time and source are as before the call.
C14_RejectedStepChangesNothing ==
  [][(fault = "ok" /\ fault' \in InvalidAction) =>
       UNCHANGED <<pc, arrivals, n_workers, timeline, wall_time, t_prev,
                   active_job_ids, completed_job_ids, schedulable_ops,
                   selected_ops, done, reward, loc, pools, pool_keys,
                   commitments, ncf, ncto, nmov, twc, curr_source, jobs,
                   ops, wjob, available>>]_vars

\* a step is rejected in the middle of a round, with events pending
C14_Witness ==
  /\ fault \in InvalidAction
  /\ selected_ops # {} /\ Len(timeline) > 0 /\ wall_time > 0

\* the assertions on the counters of the assignment state
InvariantViolation ==
  { "assert:increment_commitments:supply>=demand",
    "assert:decrement_commitments:from>=0",
    "assert:decrement_commitments:to>=0",
    "assert:count_worker_arrival:moving>=0",
    "assert:move_worker_to_pool:total>=0",
    "assert:remove_commitment:total>=0" }

\* what the caller of step sees raised: every assert statement raises
\* AssertionError, anything else is raised under its own name
exception_type(f) ==
  IF f \in InvalidAction \cup InvariantViolation
    THEN "AssertionError" ELSE f

\* C15: the outcome of a malformed action (target not schedulable or
\* already selected, demand exhausted) is an outcome of its own, which the
\* caller can tell from the outcome of a violated internal invariant
\* (oversubscribed pool, negative counter).
C15_InvalidActionDistinct ==
  fault \in InvalidAction =>
    \A f \in InvariantViolation : exception_type(fault) # exception_type(f)

\* reset has returned and no step has been accepted since
AfterReset == hist.last.kind = "reset" /\ fault \notin InvalidAction

\* the jobs whose arrival is later than time 0
LaterArrivals == {j \in 1 .. Len(arrivals) : arrivals[j].t > 0}

\* C16: reset processes the events of time 0 and no later event.  When
\* reset returns, it has raised nothing (also when every arrival is at time
\* 0), wall time is 0, every arrival of a later time is still in the
\* timeline and its job is not active, and the source is General if the
\* General pool has a worker.
C16_ResetProcessesTimeZero ==
  AfterReset =>
    /\ fault = "ok"
    /\ wall_time = 0
    /\ \A j \in LaterArrivals :
         /\ \E i \in 1 .. Len(timeline) :
              timeline[i].e.type = "JobArrival" /\ timeline[i].e.job = j
         /\ j \notin RangeOf(active_job_ids)
    /\ pools[General] # {} => curr_source = General

\* C17: terminal.  Whenever step returns done = true, the timeline is
\* empty, no stage is schedulable and no job is active; and step never finds
\* the timeline exhausted with no round to open while a stage is schedulable
\* or a job is incomplete.
C17_Terminal ==
  /\ (done /\ fault = "ok") =>
       /\ Len(timeline) = 0
       /\ schedulable_ops = {}
       /\ Len(active_job_ids) = 0
  /\ fault \notin { "assert:step:done_schedulable_empty",
                    "assert:step:all_jobs_complete" }

\* the first entry of the earliest time in the timeline
EarliestFirst ==
  CHOOSE i \in 1 .. Len(timeline) :
    /\ \A m \in 1 .. Len(timeline) : timeline[i].t <= timeline[m].t
    /\ \A m \in 1 .. i - 1 : timeline[m].t > timeline[i].t

Roster == 0 .. n_workers - 1

\* the arrivals of worker w that are in the timeline
ArrivalsOf(w) ==
  {i \in 1 .. Len(timeline) :
     timeline[i].e.type = "WorkerArrival" /\ timeline[i].e.w = w}

\* the workers on their way to stage k
MovingTo(k) ==
  {w \in Roster : \E i \in ArrivalsOf(w) : timeline[i].e.op = k}

count_workers(s, j) ==
  LET RECURSIVE Sum(_)
      Sum(S) ==
        IF S = {} THEN 0
        ELSE LET k == CHOOSE x \in S : TRUE
             IN Cardinality(s.pools[k]) + s.nmov[k] + s.ncto[k]
                  + Sum(S \ {k})
  IN Cardinality(s.pools[JobKey(j)]) + Sum(OpsOf(s, j))

\* _observe: the counts the observation is built from
observe(s) ==
  [ n_source_workers |-> num_uncommitted_source_workers(s),
    source_job |-> source_job(s),
    jobs |->
      [i \in 1 .. Len(s.active_job_ids) |->
         LET j == s.active_job_ids[i]
         IN [ job |-> j,
              worker_count |-> count_workers(s, j),
              n_remaining_tasks |->
                [k \in OpsOf(s, j) |-> n_remaining_tasks(s, k)] ]],
    op_mask |-> s.schedulable_ops \ s.selected_ops ]

\* step's loop over the timeline, run to the return of step
RECURSIVE drain(_, _, _)
drain(s, d, pick) ==
  IF ~Ok(s) THEN s
  ELSE IF \/ num_uncommitted_source_workers(s) < 0
          \/ timeline_empty(s)
          \/ should_start_new_commitment_round(s)
    THEN step_return(s)
  ELSE drain(pop_and_process(s, d, pick), d, pick)

\* the rest of a call of step after the commitment round: the loop over
\* the timeline if the round was closed, the sets of stages iterated in the
\* order pick_op
finish_step(s1, d, pick_op) ==
  IF Ok(s1) /\ s1.pc = "drain" THEN drain(s1, d, pick_op) ELSE s1

\* what the state holds about worker w, without its id
Profile(s, w) ==
  [ loc |-> s.loc[w], wjob |-> s.wjob[w], available |-> s.available[w],
    pools |-> {k \in PoolKeys : w \in s.pools[k]},
    events |-> {i \in 1 .. Len(s.timeline) :
                  /\ s.timeline[i].e.type # "JobArrival"
                  /\ s.timeline[i].e.w = w} ]

\* the state without the ids of the workers
Anonymous(s) ==
  [ s EXCEPT
      !.loc = <<>>, !.wjob = <<>>, !.available = <<>>, !.hist = <<>>,
      !.pools = [k \in PoolKeys |-> Cardinality(s.pools[k])],
      !.timeline =
         [i \in 1 .. Len(s.timeline) |->
            [ t |-> s.timeline[i].t, type |-> s.timeline[i].e.type,
              job |-> s.timeline[i].e.job, op |-> s.timeline[i].e.op ]] ]

\* states a and b are the same up to a renaming of the workers: as many
\* workers of b as of a have each profile, and the rest is equal
SameUpToRenaming(a, b) ==
  /\ Anonymous(a) = Anonymous(b)
  /\ \A w \in Workers :
       Cardinality({v \in Workers : Profile(a, v) = Profile(a, w)})
         = Cardinality({v \in Workers : Profile(b, v) = Profile(a, w)})

\* the workers of the source that are free: the set whose elements
\* _fulfill_source_commitments takes in an unspecified order
FreeAtSource == {w \in pools[curr_source] : available[w]}

op_masks_ignoring_selected(s) ==
  [ raised |-> "none",
    masks |-> [j \in RangeOf(s.active_job_ids) |->
                 {k \in s.schedulable_ops : k[1] = j}] ]

\* _construct_op_masks: for each active job the stages whose entry is set;
\* writing the entry of a stage of a job without a mask raises KeyError
construct_op_masks(s) ==
  LET valid_ops == s.schedulable_ops \ s.selected_ops
  IN [ raised |->
         IF \E k \in valid_ops : k[1] \notin RangeOf(s.active_job_ids)
           THEN "KeyError" ELSE "none",
       masks |-> [j \in RangeOf(s.active_job_ids) |->
                    {k \in valid_ops : k[1] = j}] ]

\* _construct_prlvl_mask: the indices set by prlvl_msk[:n_source_workers]
\* in a mask of n_workers entries (a negative bound counts from the end)
construct_prlvl_mask(s) ==
  LET n == num_uncommitted_source_workers(s)
  IN IF n >= 0 THEN 0 .. (Min(n, s.n_workers) - 1)
     ELSE 0 .. (s.n_workers + n - 1)

\* C21: observation masks.  In every observation returned with done =
\* false, the stage mask is set exactly for the schedulable stages that are
\* not selected, all of them stages of active jobs, and the worker-count
\* mask has exactly as many entries set as the source has uncommitted
\* workers, members of the source minus commitments from it, a number >= 0.
C21_ObservationMasks ==
  (pc = "caller" /\ fault = "ok" /\ ~done) =>
    LET masks == construct_op_masks(St).masks
        n == Cardinality(pools[curr_source]) - ncf[curr_source]
    IN /\ construct_op_masks(St).raised = "none"
       /\ \A k \in OpKeys :
            (k[1] \in DOMAIN masks /\ k \in masks[k[1]])
              <=> k \in schedulable_ops \ selected_ops
       /\ \A k \in schedulable_ops \ selected_ops :
            k[1] \in RangeOf(active_job_ids)
       /\ n >= 0
       /\ Cardinality(construct_prlvl_mask(St)) = n

\* an observation in the middle of a round: a stage is selected, another
\* can still be selected, and part of the source's workers are committed
C21_Witness ==
  /\ pc = "caller" /\ fault = "ok" /\ ~done
  /\ selected_ops # {} /\ schedulable_ops \ selected_ops # {}
  /\ ncf[curr_source] > 0
  /\ Cardinality(construct_prlvl_mask(St)) > 0

\* an accepted call of step returns in the middle of the round
MidRoundStep == StepAccepted /\ pc' = "caller"

Target == hist'.last.target

\* the commitment of the call brings the demand of its target to <= 0
CommitSaturates ==
  hist'.last.remaining - hist'.last.moving - hist'.last.committed
    - hist'.last.adjusted <= 0

\* the successors of the target all of whose parents are saturated after
\* the call
Unlocked ==
  {c \in Successors(St, Target) :
     \A q \in Parents(St, c) : ops'[q].saturated}

\* stage c is schedulable after the call and registered with zero counters
OpenedFresh(c) ==
  /\ c \in schedulable_ops'
  /\ c \in pool_keys' /\ pools'[c] = {}
  /\ ncf'[c] = 0 /\ ncto'[c] = 0 /\ nmov'[c] = 0

\* C23: saturation on commit.  When the commitment of a step brings the
\* demand of the target to <= 0, the target leaves the schedulable set in
\* that step and every successor all of whose parents are saturated is in
\* the schedulable set, registered with zero counters, when step returns in
\* the middle of the round; a target whose demand stays > 0 remains
\* schedulable.
C23_SaturationOnCommit ==
  [][MidRoundStep =>
       IF CommitSaturates
         THEN /\ Target \notin schedulable_ops'
              /\ ops'[Target].saturated
              /\ \A c \in Unlocked : OpenedFresh(c)
         ELSE Target \in schedulable_ops']_vars

\* the event popped is the completion of a task of a stage that still has
\* a task nobody has started
CompletionWithWorkLeft ==
  /\ EventProcessed
  /\ NextEvent.type = "TaskCompletion"
  /\ n_remaining_tasks(St, NextEvent.op) > 0

\* C24: a task completion that leaves its stage with work.  The worker
\* that completed the task is working again at once and a new completion
\* event for the worker and the stage is on the timeline; the pools, the
\* location of every worker, all the commitments and the current source
\* are as they were before the event.
C24_CompletionWithWorkLeft ==
  [][CompletionWithWorkLeft =>
       /\ fault' = "ok"
       /\ ~available'[NextEvent.w]
       /\ ops'[NextEvent.op].n_completed_tasks =
            ops[NextEvent.op].n_completed_tasks + 1
       /\ ops'[NextEvent.op].n_processing = ops[NextEvent.op].n_processing
       /\ Len(timeline') = Len(timeline)
       /\ \E i \in 1 .. Len(timeline') :
            /\ timeline'[i].e = NextEvent
            /\ timeline'[i].t > wall_time'
       /\ UNCHANGED <<loc, pools, pool_keys, commitments, ncf, ncto, nmov,
                       twc, curr_source, wjob>>]_vars

\* the only worker of the run has completed a task of a stage in the event
\* just processed and is working on the next task of that stage
C24_Witness ==
  /\ pc = "drain" /\ fault = "ok" /\ n_workers = 1 /\ hist.log # <<>>
  /\ hist.log[Len(hist.log)].type = "TaskCompletion"
  /\ hist.log[Len(hist.log)].t = wall_time
  /\ \E i \in 1 .. Len(timeline) :
       /\ timeline[i].e.type = "TaskCompletion"
       /\ ops[timeline[i].e.op].n_completed_tasks > 0
       /\ ops[timeline[i].e.op].n_processing = 1
       /\ ~available[timeline[i].e.w]
       /\ timeline[i].t > wall_time

\* the event popped is the completion of a task of a stage all of whose
\* tasks have been started, and it is processed without a fault
CompletionWithoutWorkLeft ==
  /\ EventProcessed
  /\ NextEvent.type = "TaskCompletion"
  /\ n_remaining_tasks(St, NextEvent.op) = 0
  /\ fault' = "ok"

\* the completion adds stages to the frontier of the job
FrontierChanged ==
  jobs'[NextEvent.job].frontier_ops # jobs[NextEvent.job].frontier_ops

\* C25: the source after a task completion that leaves the stage without
\* remaining tasks is the pool of the job if the completion changed the
\* frontier of the job, else the op pool of the stage if that pool had no
\* outstanding commitment for the freed worker, else the source as it was.
C25_SourceAfterCompletion ==
  [][CompletionWithoutWorkLeft =>
       curr_source' =
         IF FrontierChanged THEN JobKey(NextEvent.job)
         ELSE IF peek_commitment(St, NextEvent.op) = NullKey
           THEN NextEvent.op
         ELSE curr_source]_vars

\* a task completion has just been processed and the source is the pool
\* of a job, which only this update makes it, with a stage of the job
\* unlocked and not started
C25_Witness ==
  /\ pc = "drain" /\ fault = "ok" /\ hist.log # <<>>
  /\ hist.log[Len(hist.log)].type = "TaskCompletion"
  /\ hist.log[Len(hist.log)].t = wall_time
  /\ curr_source[1] > 0 /\ curr_source[2] = 0
  /\ \E k \in jobs[curr_source[1]].frontier_ops :
       Parents(St, k) # {} /\ ops[k].n_processing = 0
         /\ ops[k].n_completed_tasks = 0

\* the event popped is the arrival of a worker at a stage that is not in
\* the live frontier of its job
RaceArrival ==
  /\ EventProcessed
  /\ NextEvent.type = "WorkerArrival"
  /\ NextEvent.op \notin jobs[NextEvent.job].frontier_ops

\* C26: the completion race of a worker arrival.  A worker that arrives at
\* a stage outside the live frontier of the job is placed in the pool of
\* the job, not in the op pool, and starts no task; the stage is put back
\* in the schedulable set exactly when its demand is > 0 and it is not
\* schedulable already.
C26_ArrivalRace ==
  [][RaceArrival =>
       /\ fault' = "ok"
       /\ loc'[NextEvent.w] = JobKey(NextEvent.job)
       /\ NextEvent.w \in pools'[JobKey(NextEvent.job)]
       /\ NextEvent.w \notin pools'[NextEvent.op]
       /\ wjob'[NextEvent.w] = NextEvent.job
       /\ available'[NextEvent.w] = available[NextEvent.w]
       /\ ops'[NextEvent.op].n_processing = ops[NextEvent.op].n_processing
       /\ \A i \in 1 .. Len(timeline') :
            ~(timeline'[i].e.type = "TaskCompletion"
                /\ timeline'[i].e.w = NextEvent.w)
       /\ schedulable_ops' =
            IF get_worker_demand(St', NextEvent.op) > 0
              THEN schedulable_ops \cup {NextEvent.op}
            ELSE schedulable_ops]_vars

\* a worker has arrived at a stage whose parent is still running: it is in
\* the pool of the job and the stage has been made schedulable again
C26_Witness ==
  /\ pc = "drain" /\ fault = "ok" /\ hist.log # <<>>
  /\ hist.log[Len(hist.log)].type = "WorkerArrival"
  /\ hist.log[Len(hist.log)].t = wall_time
  /\ \E w \in Roster :
       /\ loc[w][1] > 0 /\ loc[w][2] = 0 /\ available[w]
       /\ \E k \in schedulable_ops :
            /\ k[1] = loc[w][1]
            /\ k \notin jobs[k[1]].frontier_ops
            /\ hist.n_sched_adds[k] = 2
            /\ ~ops[k].saturated

\* the call of step being taken is accepted and closes the round
RoundClosingStep == StepAccepted /\ pc' = "drain"

\* the number of commitments outstanding from the source when the round
\* closes: those left by earlier rounds and the one this call adds
Owed == ncf[curr_source] + hist'.last.adjusted

\* the commitments of the source when the round closes, in insertion order
OwedList ==
  add_commitment(St, hist'.last.adjusted, Target).commitments[curr_source]

\* what is left of the list cs of commitments once m units have been
\* served from its front
RECURSIVE DropUnits(_, _)
DropUnits(cs, m) ==
  IF m = 0 \/ cs = <<>> THEN cs
  ELSE IF cs[1][2] <= m THEN DropUnits(Tail(cs), m - cs[1][2])
  ELSE <<<<cs[1][1], cs[1][2] - m>>>> \o Tail(cs)

\* worker w has started a task of a stage of the job it was at, and its
\* completion is on the timeline
StartedTask(w) ==
  /\ ~available'[w] /\ loc'[w][2] > 0 /\ loc'[w][1] = wjob[w]
  /\ \E i \in 1 .. Len(timeline') :
       /\ timeline'[i].e.type = "TaskCompletion"
       /\ timeline'[i].e.w = w /\ timeline'[i].e.op = loc'[w]
       /\ timeline'[i].t > wall_time

\* worker w is moving to a stage of another job, and its arrival is on the
\* timeline at wall_time + MOVING_COST
SentAway(w) ==
  /\ loc'[w] = NullKey /\ available'[w]
  /\ \A q \in pool_keys' : w \notin pools'[q]
  /\ \E i \in 1 .. Len(timeline') :
       /\ timeline'[i].e.type = "WorkerArrival"
       /\ timeline'[i].e.w = w /\ timeline'[i].e.job # wjob[w]
       /\ timeline'[i].t = wall_time + MOVING_COST

\* worker w has been parked at the pool of its job, idle
Parked(w) ==
  /\ available'[w] /\ wjob[w] > 0 /\ loc'[w] = JobKey(wjob[w])

OwedInFrontier ==
  \A i \in 1 .. Len(OwedList) :
    OwedList[i][1][1] = curr_source[1]
      => OwedList[i][1] \in jobs[curr_source[1]].frontier_ops

IdleAfter == {w \in FreeAtSource : available'[w] /\ loc'[w] # NullKey}

\* C28: the workers left over at round closure.  A free worker of the
\* source that is idle after the closure is in General when the source is
\* General or the job of the source is saturated, and in the pool of the
\* job of the source otherwise; after the closure no free worker is in an
\* op pool that has no commitment outstanding, and the Null pool is empty.
C28_Leftovers ==
  [][RoundClosingStep =>
       /\ \A w \in IdleAfter :
            loc'[w] = IF curr_source[1] = 0 THEN General
                      ELSE IF job_saturated(St', curr_source[1]) THEN General
                      ELSE JobKey(curr_source[1])
       /\ \A w \in Roster :
            (available'[w] /\ loc'[w][2] > 0) => ncf'[loc'[w]] > 0
       /\ pools'[NullKey] = {}]_vars

\* a list of commitments is well formed: every entry has a count > 0 and
\* no destination has two entries
WellFormed(cs) ==
  /\ \A i \in 1 .. Len(cs) : cs[i][2] > 0
  /\ \A i, m \in 1 .. Len(cs) : cs[i][1] = cs[m][1] => i = m

\* the list cs after n units have been committed to destination dst: a new
\* destination goes to the end, a destination that has an entry keeps its
\* place
Committed(cs, dst, n) ==
  LET i == CommitIndex(cs, dst)
  IN IF i = 0 THEN Append(cs, <<dst, n>>)
     ELSE [cs EXCEPT ![i] = <<dst, cs[i][2] + n>>]

\* C29: the order in which commitments are served.  Every recorded
\* destination of a pool has a count > 0 and peek_commitment gives the
\* first of them, or none for a pool without commitments; a commitment
\* enters the list of the source behind the destinations committed before
\* it; and an event that frees a worker takes at most one unit, from the
\* first destination, so every unit of an earlier destination is served
\* before any unit of a later one.
C29_ServiceOrder ==
  [][fault' = "ok" =>
       /\ \A p \in pool_keys' :
            /\ WellFormed(commitments'[p])
            /\ peek_commitment(St', p) =
                 IF commitments'[p] = <<>> THEN NullKey
                 ELSE commitments'[p][1][1]
       /\ MidRoundStep =>
            \A p \in pool_keys :
              commitments'[p] =
                IF p = curr_source
                  THEN Committed(commitments[p], Target, hist'.last.adjusted)
                ELSE commitments[p]
       /\ EventProcessed =>
            \A p \in pool_keys :
              \/ commitments'[p] = commitments[p]
              \/ commitments'[p] = DropUnits(commitments[p], 1)]_vars

\* an op pool owed workers to two destinations; the workers it has freed so
\* far, the last of them in the event just processed, all went to the
\* destination committed first (they are parked at the pool of the job and
\* that stage has been re-opened), and the destination committed later is
\* still owed every unit, with a worker of the pool still busy
C29_Witness ==
  /\ pc = "drain" /\ fault = "ok" /\ hist.log # <<>>
  /\ hist.log[Len(hist.log)].type = "TaskCompletion"
  /\ hist.log[Len(hist.log)].t = wall_time
  /\ \E p \in pool_keys :
       /\ p[2] > 0 /\ Len(commitments[p]) = 1
       /\ commitments[p][1][2] = n_tasks(St, commitments[p][1][1])
       /\ \E w \in pools[p] : ~available[w]
       /\ Cardinality({w \in Roster :
                         available[w] /\ loc[w] = JobKey(p[1])}) >= 2
       /\ \E k \in schedulable_ops :
            /\ k[1] = p[1] /\ k # p /\ k # commitments[p][1][1]
            /\ hist.n_sched_adds[k] >= 2

\* the effect of move_worker_to_pool(w, dest, send) in the current state,
\* when the call returns: r is the state it leaves
MoveEffect(w, dest, send) ==
  LET r == move_worker_to_pool(St, w, dest, send)
      old == loc[w]
      old_job == IF old = NullKey THEN 0 ELSE old[1]
  IN Ok(r) =>
       /\ \A x \in Roster \ {w} :
            /\ r.loc[x] = loc[x]
            /\ \A q \in pool_keys : (x \in r.pools[q]) <=> (x \in pools[q])
       /\ (old # NullKey /\ old # dest) => w \notin r.pools[old]
       /\ r.pool_keys = pool_keys
       /\ IF ~send
            THEN /\ r.loc[w] = dest
                 /\ \A q \in pool_keys : (w \in r.pools[q]) <=> (q = dest)
                 /\ r.nmov = nmov /\ r.twc = twc
            ELSE /\ r.loc[w] = NullKey
                 /\ \A q \in pool_keys : w \notin r.pools[q]
                 /\ r.nmov = [nmov EXCEPT ![dest] = @ + 1]
                 /\ r.twc[dest[1]] = twc[dest[1]] + 1
                 /\ old_job # 0 =>
                      (r.twc[old_job] = twc[old_job] - 1
                         /\ r.twc[old_job] >= 0)
                 /\ \A j \in DOMAIN twc :
                      j \notin {dest[1], old_job} => r.twc[j] = twc[j]

\* C30: move_worker_to_pool.  In every state the engine reaches, for every
\* worker and every registered pool: the call with send = false leaves the
\* worker a member of the destination only, located there, and changes no
\* moving counter and no job total; the call with send = true to an op
\* pool leaves the worker in no pool with no location, adds one to
\* moving_to_op of the destination and to the total of its job and takes
\* one from the total of the old job, which stays >= 0; no other worker
\* changes pool.
C30_MoveWorkerToPool ==
  fault = "ok" =>
    \A w \in Roster, dest \in pool_keys \ {NullKey} :
      /\ MoveEffect(w, dest, FALSE)
      /\ dest[2] > 0 => MoveEffect(w, dest, TRUE)

\* the only worker of the run has completed the task of job 1 and has been
\* sent from the op pool of job 1 to the stage of job 2: it is in no pool,
\* counted as moving to the stage, counted in the total of job 2 and no
\* longer in the total of job 1
C30_Witness ==
  /\ fault = "ok" /\ n_workers = 1 /\ Len(arrivals) = 2
  /\ ops[OpKey(1, 1)].n_completed_tasks = 1
  /\ loc[0] = NullKey /\ \A q \in pool_keys : 0 \notin pools[q]
  /\ nmov[OpKey(2, 1)] = 1 /\ twc[2] = 1 /\ twc[1] = 0
  /\ \E i \in 1 .. Len(timeline) :
       timeline[i].e.type = "WorkerArrival" /\ timeline[i].e.w = 0
         /\ timeline[i].e.op = OpKey(2, 1)

\* the number of WorkerArrival events for stage k that are in the timeline
PendingArrivals(k) ==
  Cardinality({i \in 1 .. Len(timeline) :
                 timeline[i].e.type = "WorkerArrival" /\ timeline[i].e.op = k})

CompletionPopped == EventProcessed /\ NextEvent.type = "TaskCompletion"

\* C32: stage counters.  In every state without a fault, for every stage,
\* n_completed_tasks <= n_tasks and n_completed_tasks plus the number of
\* tasks in progress <= n_tasks, none of them negative; and the completion
\* of a task, as add_task_completion records it, increases
\* n_completed_tasks by 1, takes the task out of the tasks in progress and
\* leaves n_remaining_tasks as it was.
C32_StageCounters ==
  [][fault' = "ok" =>
       /\ \A j \in 1 .. Len(arrivals') :
          \A k \in {OpKey(j, o) : o \in 1 .. Templates[arrivals'[j].tmpl].n_ops} :
            /\ ops'[k].n_completed_tasks >= 0 /\ ops'[k].n_processing >= 0
            /\ ops'[k].n_completed_tasks <= Templates[arrivals'[k[1]].tmpl].n_tasks[k[2]]
            /\ ops'[k].n_completed_tasks + ops'[k].n_processing
                 <= Templates[arrivals'[k[1]].tmpl].n_tasks[k[2]]
       /\ CompletionPopped =>
            LET k == NextEvent.op
                s1 == stage_add_task_completion(St, k)
            IN /\ Ok(s1)
               /\ s1.ops[k].n_completed_tasks = ops[k].n_completed_tasks + 1
               /\ s1.ops[k].n_processing = ops[k].n_processing - 1
               /\ n_remaining_tasks(s1, k) = n_remaining_tasks(St, k)
               /\ \A c \in OpKeys \ {k} : s1.ops[c] = ops[c]]_vars

\* a task of a stage of two tasks is about to complete while the other
\* task of the stage is complete or in progress: the counters are at their
\* bound
C32_Witness ==
  /\ pc = "drain" /\ fault = "ok" /\ Len(timeline) > 0
  /\ NextEvent.type = "TaskCompletion"
  /\ n_tasks(St, NextEvent.op) >= 2
  /\ n_saturated_tasks(St, NextEvent.op) = n_tasks(St, NextEvent.op)
  /\ ops[NextEvent.op].n_completed_tasks >= 1

\* a call of assign_worker has bound a slot: the entry it added to the log
Bound ==
  hist'.log[CHOOSE i \in 1 .. Len(hist'.log) :
              RemoveAt(hist'.log, i) = hist.log]

\* a call of assign_worker on a stage has returned a task
Assigned ==
  /\ pc = "stage" /\ fault' = "ok"
  /\ Len(hist'.log) = Len(hist.log) + 1

\* C33: task slot allocation.  Whatever the interleaving of assignments and
\* completions on the stages of a job, an assignment binds the slot whose
\* index is n_completed_tasks + n_processing_tasks, a slot that no earlier
\* assignment has bound, and takes exactly 1 from n_remaining_tasks; an
\* assignment to a stage with no free slot fails and changes no counter and
\* no task, and an assignment to a stage with a free slot does not fail.
C33_SlotAllocation ==
  [][pc = "stage" =>
       /\ Assigned =>
            /\ Bound.task
                 = ops[Bound.op].n_completed_tasks + ops[Bound.op].n_processing
            /\ Bound.task \in 0 .. n_tasks(St, Bound.op) - 1
            /\ ~ \E i \in 1 .. Len(hist.log) :
                   /\ hist.log[i].type = "TaskBound"
                   /\ hist.log[i].op = Bound.op
                   /\ hist.log[i].task = Bound.task
            /\ n_tasks(St, Bound.op) - ops'[Bound.op].n_completed_tasks
                   - ops'[Bound.op].n_processing
                 = n_remaining_tasks(St, Bound.op) - 1
       /\ \A k \in OpsOf(St, 1) :
            IF n_remaining_tasks(St, k) > 0
              THEN Ok(add_worker(St, k))
              ELSE /\ add_worker(St, k).fault
                        = "assert:add_worker:stage_saturated"
                   /\ add_worker(St, k).ops = ops
       /\ fault' # "ok" =>
            /\ fault' = "assert:add_worker:stage_saturated"
            /\ UNCHANGED <<ops, available, hist>>]_vars

\* the third slot of a stage has been bound after the task of its first
\* slot completed, while the task of its second slot is in progress
C33_Witness ==
  /\ pc = "stage" /\ fault = "ok"
  /\ \E i \in 1 .. Len(hist.log) - 2 :
       /\ hist.log[i].type = "TaskCompleted" /\ hist.log[i].task = 0
       /\ hist.log[i + 1].type = "TaskBound" /\ hist.log[i + 1].task = 1
       /\ hist.log[i + 2].type = "TaskBound" /\ hist.log[i + 2].task = 2
       /\ hist.log[i + 2].op = hist.log[i].op
       /\ hist.log[i + 2].w = hist.log[i].w

\* an assignment has failed on a stage all of whose slots are bound
C33_WitnessFull ==
  /\ pc = "stage" /\ fault = "assert:add_worker:stage_saturated"
  /\ \E k \in OpsOf(St, 1) :
       n_remaining_tasks(St, k) = 0 /\ ops[k].n_processing > 0

\* the stages on which worker w has a task in progress: those of the
\* TaskCompletion events of w that are in the timeline
WorkingOn(w) ==
  {timeline[i].e.op : i \in {m \in 1 .. Len(timeline) :
                               /\ timeline[m].e.type = "TaskCompletion"
                               /\ timeline[m].e.w = w}}

\* C34: processing workers live in their op pool.  In every state without
\* a fault, a worker with a task in progress on a stage is a member of the
\* pool of that stage, has one such stage and is not available; and every
\* member of the General pool or of the pool of a job is available and has
\* no task in progress.
C34_ProcessingInOpPool ==
  (pc # "new" /\ fault = "ok") =>
    \A w \in Roster :
      /\ \A k \in WorkingOn(w) : w \in pools[k] /\ ~available[w]
      /\ Cardinality(WorkingOn(w)) <= 1
      /\ ~available[w] => WorkingOn(w) # {}
      /\ (w \in pools[General] \/ \E j \in JobIds : w \in pools[JobKey(j)])
           => available[w] /\ WorkingOn(w) = {}

\* a worker has a task in progress on a stage while another worker of the
\* roster waits in the pool of the job of that stage
C34_Witness ==
  /\ pc # "new" /\ fault = "ok"
  /\ \E w, v \in Roster :
       /\ WorkingOn(w) # {} /\ w \in pools[loc[w]] /\ loc[w][2] > 0
       /\ v \in pools[JobKey(loc[w][1])] /\ available[v]

\* the entries of the timeline that were in it before the step
Kept == IF EventProcessed THEN Len(timeline) - 1 ELSE Len(timeline)

CountTo(cs, dst) ==
  IF CommitIndex(cs, dst) = 0 THEN 0 ELSE cs[CommitIndex(cs, dst)][2]

C37_SchedulableDemand ==
  [][(pc' = "caller" /\ fault' = "ok") =>
       \A k \in schedulable_ops' :
         /\ Templates[arrivals'[k[1]].tmpl].n_tasks[k[2]]
              - ops'[k].n_completed_tasks - ops'[k].n_processing
              - nmov'[k] - ncto'[k] > 0
         /\ k[1] \in RangeOf(active_job_ids')
         /\ k[1] \notin RangeOf(completed_job_ids')
         /\ arrivals'[k[1]].t <= wall_time']_vars

\* step has returned with two stages schedulable, one of them with part of
\* its remaining tasks covered by a commitment or by a worker on its way
C37_Witness ==
  /\ pc = "caller" /\ fault = "ok" /\ hist.last.kind = "step"
  /\ wall_time > 0 /\ Cardinality(schedulable_ops) >= 2
  /\ \E k \in schedulable_ops :
       /\ nmov[k] + ncto[k] > 0
       /\ get_worker_demand(St, k) > 0

\* a commitment is outstanding: some pool owes a worker to a stage
Outstanding == \E p \in PoolKeys : commitments[p] # <<>>

\* no commitment is counted and no worker is counted as moving
AllDischarged ==
  /\ ~Outstanding
  /\ \A p \in PoolKeys : ncf[p] = 0
  /\ \A d \in OpKeys : ncto[d] = 0 /\ nmov[d] = 0
  /\ \A i \in 1 .. Len(timeline) : timeline[i].e.type # "WorkerArrival"

\* when step has returned done = true, every commitment is discharged
DischargedAtDone == (done /\ fault = "ok") => AllDischarged

\* C38: commitments are eventually discharged.  While the caller goes on
\* calling step and nothing is raised, every commitment that is recorded
\* is eventually fulfilled or removed: from any state with an outstanding
\* commitment the run reaches a state with none; and when step returns
\* done = true no commitment is outstanding and no worker is moving
\* (commitments_from, commitments_to_op and moving_to_op are all 0).
C38_EventuallyDischarged ==
  /\ (Outstanding /\ fault = "ok") ~> (~Outstanding \/ fault # "ok")
  /\ []DischargedAtDone

\* C39: fulfilment precondition.  _fulfill_commitment is only invoked for
\* a destination that still has remaining tasks: under calls of step that
\* are accepted, its assertion n_remaining_tasks > 0 never fails, also
\* when a round closes at a source that holds commitments recorded in an
\* earlier round.
C39_FulfilPrecondition == fault # "assert:fulfill_commitment:remaining>0"

\* a round has just closed and a worker of the source has fulfilled the
\* commitment of the call, which covered every remaining task of its
\* target: the worker is at work on the target, which has no task left
C39_Witness ==
  /\ pc = "drain" /\ fault = "ok" /\ hist.last.kind = "step"
  /\ hist.log = <<>>
  /\ hist.last.adjusted = hist.last.remaining
  /\ n_remaining_tasks(St, hist.last.target) = 0
  /\ \E w \in Roster : loc[w] = hist.last.target /\ ~available[w]

\* the pair of reference levels for worker count n
ReferenceLevels(n) ==
  IF n <= ExecLevels[1] THEN <<ExecLevels[1], ExecLevels[1]>>
  ELSE IF n > LastLevel THEN <<LastLevel, LastLevel>>
  ELSE IF \E i \in 1 .. Len(ExecLevels) : ExecLevels[i] = n THEN <<n, n>>
  ELSE LET i == CHOOSE m \in 1 .. Len(ExecLevels) - 1 :
                  ExecLevels[m] < n /\ n < ExecLevels[m + 1]
       IN <<ExecLevels[i], ExecLevels[i + 1]>>

\* C40: worker-count reference levels.  For every worker count n in
\* 0 .. exec_cap, the interval map of the engine and executor_intervals of
\* the duration generator give the same pair: (5,5) for n <= 5, (p,p) when
\* n is a level p, the two neighbouring levels when n is strictly between
\* them, and (100,100) for every n > 100 up to and including exec_cap.
C40_ReferenceLevels ==
  (pc = "levels" /\ hist.log # <<>>) =>
    /\ hist.log[1].engine = hist.log[1].datagen
    /\ hist.log[1].engine = ReferenceLevels(hist.log[1].n)

=============================================================================
